---- MODULE Spec2Model ----
(***************************************************************************)
(* Model of package going: the sequential Map / Filter / Reduce and their  *)
(* goroutine-per-element variants CMap / CFilter / CReduce.                *)
(*                                                                         *)
(* A call of a concurrent variant is a caller goroutine plus one task      *)
(* goroutine per input position.  Every step that touches memory shared    *)
(* between goroutines (the WaitGroup counter, the result slice, the        *)
(* accumulator) is one action, so TLC explores every interleaving.         *)
(* Several calls may run at the same time over the same input slice, as in *)
(* TestCMapConcurrentAccess.                                               *)
(*                                                                         *)
(* Go indexes slices from 0, TLA+ sequences from 1: position i of the      *)
(* model is index i-1 of the code.                                         *)
(***************************************************************************)
EXTENDS Integers, Sequences, FiniteSets

(* ------------------------------ bounds -------------------------------- *)

\* longest input slice
MaxLen == 3

\* most calls in flight over the shared input
MaxCalls == 2

\* most task goroutines over all calls of one run
MaxTasks == 4

(* ------------------------------ inputs -------------------------------- *)

\* element values of the input slice
Values == {1, 2, 3}

\* initial accumulator values handed to CReduce
Inits == {5}

\* the zero value of int, which make() fills a slice with
Zero == 0

Calls == 1..MaxCalls

\* callbacks handed to the library; "nil" is the nil func value, whose call panics
MapFuncs == {"double", "square", "nil"}
Predicates == {"odd", "nil"}
Reducers == {"sum", "nil"}

\* the reducers handed to sequential Reduce: those above and one that is neither
\* commutative nor associative
SeqReducers == Reducers \cup {"horner"}

\* the elements looked up with IndexOf and Contains; 6 is in no input
Targets == Values \cup {6}

RECURSIVE SeqsUpTo(_)
SeqsUpTo(n) ==
    IF n = 0 THEN {<<>>}
    ELSE LET shorter == SeqsUpTo(n - 1)
         IN  shorter \cup {Append(s, v) : s \in {q \in shorter : Len(q) = n - 1}, v \in Values}

\* calling the callback f on v panics
Faults(f, v) == f = "nil"

\* f panics on no element of the slice l
Total(f, l) == \A k \in 1..Len(l) : ~Faults(f, l[k])

\* the transform functions of the tests
double(x) == x * 2
square(x) == x * x

\* the predicate of the tests
odd(x) == x % 2 = 1

\* the reducer of the tests
sum(a, item) == a + item

ApplyF(f, v) == IF f = "double" THEN double(v) ELSE square(v)

ApplyPred(f, v) == odd(v)

\* a reducer that appends a decimal digit
horner(a, item) == a * 10 + item

ApplyReducer(f, a, item) == IF f = "horner" THEN horner(a, item) ELSE sum(a, item)

(* ------------------------- sequential variants ------------------------ *)

\* a slice value: nil or not, and its elements up to len
NilSlice == [isnil |-> TRUE, elems |-> <<>>]
Slice(s) == [isnil |-> FALSE, elems |-> s]

\* the outcome of a call that panicked instead of returning
Panicked == [panic |-> TRUE]

RECURSIVE MapLoop(_, _, _, _)
MapLoop(list_, f, k, result_) ==
    IF k > Len(list_) THEN result_
    ELSE MapLoop(list_, f, k + 1, [result_ EXCEPT ![k] = ApplyF(f, list_[k])])

Map(list_, f) ==
    IF ~Total(f, list_) THEN Panicked
    ELSE Slice(MapLoop(list_, f, 1, [k \in 1..Len(list_) |-> Zero]))

RECURSIVE FilterLoopReverse(_, _, _, _)
\* a loop that puts each kept element in front of the result
FilterLoopReverse(list_, f, k, result_) ==
    IF k > Len(list_) THEN result_
    ELSE FilterLoopReverse(list_, f, k + 1,
                           IF ApplyPred(f, list_[k]) THEN <<list_[k]>> \o result_ ELSE result_)

RECURSIVE FilterLoop(_, _, _, _)
FilterLoop(list_, f, k, result_) ==
    IF k > Len(list_) THEN result_
    ELSE FilterLoop(list_, f, k + 1,
                    IF ApplyPred(f, list_[k]) THEN Append(result_, list_[k]) ELSE result_)

Filter(list_, f) ==
    IF ~Total(f, list_) THEN Panicked
    ELSE Slice(FilterLoop(list_, f, 1, <<>>))

RECURSIVE ReduceLoopBackward(_, _, _, _)
\* a loop that takes the elements from the last to the first
ReduceLoopBackward(list_, reducer, k, acc_) ==
    IF k > Len(list_) THEN acc_
    ELSE ReduceLoopBackward(list_, reducer, k + 1,
                            ApplyReducer(reducer, acc_, list_[Len(list_) + 1 - k]))

RECURSIVE ReduceLoop(_, _, _, _)
ReduceLoop(list_, reducer, k, acc_) ==
    IF k > Len(list_) THEN acc_
    ELSE ReduceLoop(list_, reducer, k + 1, ApplyReducer(reducer, acc_, list_[k]))

Reduce(list_, reducer, initial_) ==
    IF ~Total(reducer, list_) THEN Panicked
    ELSE [val |-> ReduceLoop(list_, reducer, 1, initial_)]

\* the error IndexOf returns when the target is in the list, and when it is not
NoError == "nil"
NotFound == "element not found"

RECURSIVE IndexOfLoop(_, _, _)
IndexOfLoop(list_, target, k) ==
    IF k > Len(list_) THEN [index |-> -1, err |-> NotFound]
    ELSE IF list_[k] = target THEN [index |-> k - 1, err |-> NoError]
    ELSE IndexOfLoop(list_, target, k + 1)

\* a search that starts at the second element
IndexOfSkipsFirst(list_, target) == IndexOfLoop(list_, target, 2)

\* IndexOf returns the Go index, counted from 0
IndexOf(list_, target) == IndexOfLoop(list_, target, 1)

RECURSIVE ContainsLoop(_, _, _)
ContainsLoop(list_, target, k) ==
    IF k > Len(list_) THEN FALSE
    ELSE IF list_[k] = target THEN TRUE
    ELSE ContainsLoop(list_, target, k + 1)

Contains(list_, target) == ContainsLoop(list_, target, 1)

(* ------------------------------- state -------------------------------- *)

VARIABLES
    list,        \* the input slice shared by all calls
    kind,        \* kind[c]: which variant call c runs ("none" before the call)
    fn,          \* fn[c]: the callback of call c
    initial,     \* initial[c]: CReduce's initial value
    pc,          \* pc[c]: where the caller goroutine of call c is
    next,        \* next[c]: the position the range loop of call c spawns next
    barrier,     \* the calls that have declared their WaitGroup
    wg,          \* wg[c]: the counter of call c's WaitGroup
    result,      \* result[c]: the backing array of call c's result slice
    rlen,        \* rlen[c]: len of call c's result slice header
    acc,         \* acc[c]: call c's accumulator
    ret,         \* ret[c]: what call c returned
    task,        \* task[c][t]: the goroutine call c spawned for position t; tmp is the
                 \* value it read from shared memory and has still to use
    crashed,     \* the process died of an unrecovered panic
    seq          \* the last call of a sequential function and what it returned

vars == <<list, kind, fn, initial, pc, next, barrier, wg, result, rlen, acc, ret, task, crashed,
          seq>>

N == Len(list)

Tasks == 1..N

NotReturned == [pending |-> TRUE]

NoSeq == [op |-> "none"]

NoTask == [pc |-> "none", i |-> 0, v |-> Zero, tmp |-> 0, sig |-> 0]

\* the state before any call is made, the input being one of lists
InitOver(lists) ==
    /\ list \in lists
    /\ kind = [c \in Calls |-> "none"]
    /\ fn = [c \in Calls |-> "none"]
    /\ initial = [c \in Calls |-> Zero]
    /\ pc = [c \in Calls |-> "idle"]
    /\ next = [c \in Calls |-> 1]
    /\ barrier = {}
    /\ wg = [c \in Calls |-> 0]
    /\ result = [c \in Calls |-> <<>>]
    /\ rlen = [c \in Calls |-> 0]
    /\ acc = [c \in Calls |-> Zero]
    /\ ret = [c \in Calls |-> NotReturned]
    /\ task = [c \in Calls |-> [t \in 1..Len(list) |-> NoTask]]
    /\ crashed = FALSE
    /\ seq = NoSeq

Init == InitOver(SeqsUpTo(MaxLen))

\* the inputs of the tests: the prefixes of []int{1, 2, 3, 4, 5}
TestLists == {[k \in 1..n |-> k] : n \in 0..MaxLen}

TestInit == InitOver(TestLists)

\* the reducers handed to CReduce on list_: the one that tells the order of the
\* elements apart is tried on the inputs of the tests
ReducersFor(list_) == IF list_ \in TestLists THEN SeqReducers ELSE Reducers

(* ------------------------- the pieces of a call ----------------------- *)

\* the guard written as len(list) <= 1
IsEmptyOrSingle(list_) == Len(list_) <= 1

\* the guard left out
IsEmptyNever(list_) == FALSE

\* if len(list) == 0
IsEmpty(list_) == Len(list_) = 0

\* make([]U, len, cap): a backing array of cap zero values and a header of length len
MakeSlice(len_, cap_) == [arr |-> [k \in 1..cap_ |-> Zero], len |-> len_]

\* an Add that counts one task too few
WgAddShort(counter, delta) == counter + delta - 1

\* wg.Add(delta)
WgAdd(counter, delta) == counter + delta

\* a Done that does not reach the counter
WgDoneLost(counter) == counter

\* wg.Done()
WgDone(counter) == counter - 1

\* a Wait that lets the caller go while one task is still out
WaitReleasedEarly(counter) == counter <= 1

\* wg.Wait() no longer blocks
WaitReleased(counter) == counter = 0

\* a closure that reads the loop variables i and v instead of taking them as
\* arguments, and runs after the loop has reached its last iteration
GoArgsByReference(list_, k) == [i |-> Len(list_), v |-> list_[Len(list_)]]

\* go func(i, v){...}(i, v): the arguments are evaluated in the spawning iteration
GoArgs(list_, k) == [i |-> k, v |-> list_[k]]

\* wg.Done() as the last statement of the task instead of deferred
SignalsOnReturn(how) == how = "returning"

\* defer wg.Done(): the deferred call runs when the task returns and when it panics
SignalsOnExit(how) == how \in {"returning", "panicking"}

\* every task storing into the first slot
SlotFirst(i) == 1

\* result[i] = ...: the slot a CMap task stores into
Slot(i) == i

\* an append that always stores into the first element
AppendSlotFirst(len_) == 1

\* append(result, v) stores v at index len(result), position len + 1 of the model
AppendSlot(len_) == len_ + 1

\* the header append returns has the length it read plus one
AppendLen(len_) == len_ + 1

\* var acc R left at its zero value
InitialAccZero(initial_) == Zero

\* var acc R = initial
InitialAcc(initial_) == initial_

\* result, wg and acc declared at package level
FrameShared(c) == 1

\* result, wg and acc are locals of the call: every call has its own
Frame(c) == c

\* what a call with an empty input returns
EmptyResult(k, initial_) ==
    IF k = "CReduce" THEN [val |-> initial_] ELSE NilSlice

\* what the caller returns once the barrier has released it
Result(k, c) ==
    CASE k = "CMap"    -> Slice(SubSeq(result[Frame(c)], 1, rlen[Frame(c)]))
      [] k = "CFilter" -> Slice(SubSeq(result[Frame(c)], 1, rlen[Frame(c)]))
      [] k = "CReduce" -> [val |-> acc[Frame(c)]]

Started == {c \in Calls : pc[c] # "idle"}

(* ------------------------------ the caller ---------------------------- *)

\* The test harness starts call c with variant k, callback f and initial value init;
\* what its sequential tests returned is gone by then.
\* Calls are started in the order of their number.  An empty input returns at once;
\* otherwise the call makes its result, declares its WaitGroup (counter zero) and adds
\* len(list) to it, all before the range loop spawns the first task.
Call(c, k, f, init) ==
    /\ ~crashed
    /\ pc[c] = "idle"
    /\ \A d \in Calls : d < c => pc[d] # "idle"
    /\ (Cardinality(Started) + 1) * N <= MaxTasks
    /\ kind' = [kind EXCEPT ![c] = k]
    /\ fn' = [fn EXCEPT ![c] = f]
    /\ initial' = [initial EXCEPT ![c] = init]
    /\ IF IsEmpty(list)
       THEN /\ pc' = [pc EXCEPT ![c] = "returned"]
            /\ ret' = [ret EXCEPT ![c] = EmptyResult(k, init)]
            /\ UNCHANGED <<barrier, wg, result, rlen, acc>>
       ELSE /\ pc' = [pc EXCEPT ![c] = IF N = 0 THEN "wait" ELSE "spawn"]
            /\ barrier' = barrier \cup {Frame(c)}
            /\ wg' = [wg EXCEPT ![Frame(c)] = WgAdd(@, N)]
            /\ result' = [result EXCEPT ![Frame(c)] =
                            IF k = "CMap" THEN MakeSlice(N, N).arr
                            ELSE IF k = "CFilter" THEN MakeSlice(0, N).arr
                            ELSE @]
            /\ rlen' = [rlen EXCEPT ![Frame(c)] =
                            IF k = "CMap" THEN MakeSlice(N, N).len
                            ELSE IF k = "CFilter" THEN MakeSlice(0, N).len
                            ELSE @]
            /\ acc' = [acc EXCEPT ![Frame(c)] = IF k = "CReduce" THEN InitialAcc(init) ELSE @]
            /\ UNCHANGED ret
    /\ seq' = NoSeq
    /\ UNCHANGED <<list, next, task, crashed>>

CallCMap(c) == \E f \in MapFuncs : Call(c, "CMap", f, Zero)

CallCFilter(c) == \E f \in Predicates : Call(c, "CFilter", f, Zero)

CallCReduce(c) == \E f \in ReducersFor(list), init \in Inits : Call(c, "CReduce", f, init)

\* one iteration of the range loop: spawn the task of position next[c]
Spawn(c) ==
    /\ ~crashed
    /\ pc[c] = "spawn"
    /\ next[c] <= N
    /\ LET a == GoArgs(list, next[c])
       IN  task' = [task EXCEPT ![c][next[c]] =
                       [pc |-> "ready", i |-> a.i, v |-> a.v, tmp |-> 0, sig |-> 0]]
    /\ next' = [next EXCEPT ![c] = @ + 1]
    /\ pc' = [pc EXCEPT ![c] = IF next[c] = N THEN "wait" ELSE "spawn"]
    /\ UNCHANGED <<list, kind, fn, initial, barrier, wg, result, rlen, acc, ret, crashed, seq>>

\* wg.Wait() returns and the caller returns its result
Return(c) ==
    /\ ~crashed
    /\ pc[c] = "wait"
    /\ WaitReleased(wg[Frame(c)])
    /\ pc' = [pc EXCEPT ![c] = "returned"]
    /\ ret' = [ret EXCEPT ![c] = Result(kind[c], c)]
    /\ UNCHANGED <<list, kind, fn, initial, next, barrier, wg, result, rlen, acc, task, crashed,
                   seq>>

(* ------------------------------ the tasks ----------------------------- *)

TaskFrame == <<list, kind, fn, initial, pc, next, barrier, ret, crashed, seq>>

\* CMap's task: result[i] = f(v)
MapStore(c, t) ==
    /\ ~crashed
    /\ kind[c] = "CMap"
    /\ task[c][t].pc = "ready"
    /\ IF Faults(fn[c], task[c][t].v)
       THEN /\ task' = [task EXCEPT ![c][t].pc = "panicking"]
            /\ UNCHANGED result
       ELSE /\ result' = [result EXCEPT ![Frame(c)][Slot(task[c][t].i)] =
                             ApplyF(fn[c], task[c][t].v)]
            /\ task' = [task EXCEPT ![c][t].pc = "returning"]
    /\ UNCHANGED <<TaskFrame, wg, rlen, acc>>

\* CFilter's task: if f(v), then append reads the slice header of result
FilterTest(c, t) ==
    /\ ~crashed
    /\ kind[c] = "CFilter"
    /\ task[c][t].pc = "ready"
    /\ task' = [task EXCEPT ![c][t] =
                  IF Faults(fn[c], task[c][t].v) THEN [@ EXCEPT !.pc = "panicking"]
                  ELSE IF ApplyPred(fn[c], task[c][t].v)
                       THEN [@ EXCEPT !.pc = "store", !.tmp = rlen[Frame(c)]]
                       ELSE [@ EXCEPT !.pc = "returning"]]
    /\ UNCHANGED <<TaskFrame, wg, result, rlen, acc>>

\* a filter in place: the result shares the input's backing array, and append
\* stores v into the input
FilterStoreInPlace(c, t) ==
    /\ ~crashed
    /\ task[c][t].pc = "store"
    /\ list' = [list EXCEPT ![AppendSlot(task[c][t].tmp)] = task[c][t].v]
    /\ task' = [task EXCEPT ![c][t].pc = "header"]
    /\ UNCHANGED <<kind, fn, initial, pc, next, barrier, ret, crashed, seq, wg, result, rlen, acc>>

\* append stores v behind the length it read, in the array make() allocated
FilterStore(c, t) ==
    /\ ~crashed
    /\ task[c][t].pc = "store"
    /\ result' = [result EXCEPT ![Frame(c)][AppendSlot(task[c][t].tmp)] = task[c][t].v]
    /\ task' = [task EXCEPT ![c][t].pc = "header"]
    /\ UNCHANGED <<TaskFrame, wg, rlen, acc>>

\* result = append(...): the task writes back the header with the length it read plus one
FilterHeader(c, t) ==
    /\ ~crashed
    /\ task[c][t].pc = "header"
    /\ rlen' = [rlen EXCEPT ![Frame(c)] = AppendLen(task[c][t].tmp)]
    /\ task' = [task EXCEPT ![c][t] = [@ EXCEPT !.pc = "returning", !.tmp = 0]]
    /\ UNCHANGED <<TaskFrame, wg, result, acc>>

\* CReduce's task evaluates the argument acc of reducer(acc, v)
ReduceRead(c, t) ==
    /\ ~crashed
    /\ kind[c] = "CReduce"
    /\ task[c][t].pc = "ready"
    /\ task' = [task EXCEPT ![c][t] = [@ EXCEPT !.pc = "reduce", !.tmp = acc[Frame(c)]]]
    /\ UNCHANGED <<TaskFrame, wg, result, rlen, acc>>

\* acc = reducer(the value read, v)
ReduceWrite(c, t) ==
    /\ ~crashed
    /\ task[c][t].pc = "reduce"
    /\ IF Faults(fn[c], task[c][t].v)
       THEN /\ task' = [task EXCEPT ![c][t] = [@ EXCEPT !.pc = "panicking", !.tmp = 0]]
            /\ UNCHANGED acc
       ELSE /\ acc' = [acc EXCEPT ![Frame(c)] =
                          ApplyReducer(fn[c], task[c][t].tmp, task[c][t].v)]
            /\ task' = [task EXCEPT ![c][t] = [@ EXCEPT !.pc = "returning", !.tmp = 0]]
    /\ UNCHANGED <<TaskFrame, wg, result, rlen>>

\* the task leaves its function: the deferred wg.Done() runs, on return and on panic
TaskExit(c, t) ==
    /\ ~crashed
    /\ task[c][t].pc \in {"returning", "panicking"}
    /\ IF SignalsOnExit(task[c][t].pc)
       THEN /\ wg' = [wg EXCEPT ![Frame(c)] = WgDone(@)]
            /\ task' = [task EXCEPT ![c][t] =
                          [@ EXCEPT !.pc = IF task[c][t].pc = "returning" THEN "done" ELSE "unwound",
                                    !.sig = @ + 1]]
       ELSE /\ task' = [task EXCEPT ![c][t].pc =
                          IF task[c][t].pc = "returning" THEN "done" ELSE "unwound"]
            /\ UNCHANGED wg
    /\ UNCHANGED <<TaskFrame, result, rlen, acc>>

\* a panic that unwound its goroutine without being recovered ends the process
Crash(c, t) ==
    /\ ~crashed
    /\ task[c][t].pc = "unwound"
    /\ crashed' = TRUE
    /\ UNCHANGED <<list, kind, fn, initial, pc, next, barrier, wg, result, rlen, acc, ret, task,
                   seq>>

(* ------------------------ the sequential functions ------------------- *)

\* The test harness calls the sequential function op on the input, before it starts
\* the calls of the concurrent variants.  A callback that panics ends the process.
SeqCall(op, f, arg, out) ==
    /\ ~crashed
    /\ Started = {}
    /\ seq' = [op |-> op, f |-> f, arg |-> arg, out |-> out]
    /\ crashed' = (out = Panicked)
    /\ UNCHANGED <<list, kind, fn, initial, pc, next, barrier, wg, result, rlen, acc, ret, task>>

CallMap == \E f \in MapFuncs : SeqCall("Map", f, Zero, Map(list, f))

CallFilter == \E f \in Predicates : SeqCall("Filter", f, Zero, Filter(list, f))

CallReduce ==
    \E f \in SeqReducers, init \in Inits : SeqCall("Reduce", f, init, Reduce(list, f, init))

CallIndexOf == \E target \in Targets : SeqCall("IndexOf", "none", target, IndexOf(list, target))

CallContains ==
    \E target \in Targets : SeqCall("Contains", "none", target, [found |-> Contains(list, target)])

CallerStep(c) ==
    \/ CallCMap(c)
    \/ CallCFilter(c)
    \/ CallCReduce(c)
    \/ Spawn(c)
    \/ Return(c)

TaskStep(c, t) ==
    \/ MapStore(c, t)
    \/ FilterTest(c, t)
    \/ FilterStore(c, t)
    \/ FilterHeader(c, t)
    \/ ReduceRead(c, t)
    \/ ReduceWrite(c, t)
    \/ TaskExit(c, t)
    \/ Crash(c, t)

Next ==
    \/ CallMap
    \/ CallFilter
    \/ CallReduce
    \/ CallIndexOf
    \/ CallContains
    \/ \E c \in Calls : CallCMap(c)
    \/ \E c \in Calls : CallCFilter(c)
    \/ \E c \in Calls : CallCReduce(c)
    \/ \E c \in Calls : Spawn(c)
    \/ \E c \in Calls : Return(c)
    \/ \E c \in Calls, t \in Tasks : MapStore(c, t)
    \/ \E c \in Calls, t \in Tasks : FilterTest(c, t)
    \/ \E c \in Calls, t \in Tasks : FilterStore(c, t)
    \/ \E c \in Calls, t \in Tasks : FilterHeader(c, t)
    \/ \E c \in Calls, t \in Tasks : ReduceRead(c, t)
    \/ \E c \in Calls, t \in Tasks : ReduceWrite(c, t)
    \/ \E c \in Calls, t \in Tasks : TaskExit(c, t)
    \/ \E c \in Calls, t \in Tasks : Crash(c, t)

Spec == Init /\ [][Next]_vars

\* The Go scheduler runs every runnable goroutine eventually.  Whether a call
\* terminates does not depend on the values of the elements, so the fair behaviours
\* are explored over the inputs of the tests.
FairSpec ==
    /\ TestInit
    /\ [][Next]_vars
    /\ \A c \in Calls : WF_vars(Spawn(c) \/ Return(c))
    /\ \A c \in Calls : \A t \in 1..MaxLen : WF_vars(t \in Tasks /\ TaskStep(c, t))

(* ------------------------------ properties ---------------------------- *)

Returned(c) == pc[c] = "returned"

\* the task has left its function, by return or by panic
Exited(c, t) == task[c][t].pc \in {"done", "unwound"}

\* how often e occurs in the sequence s
Count(s, e) == Cardinality({k \in DOMAIN s : s[k] = e})

\* the task has read the shared slice header or accumulator and not yet written it back
InCritical(c, t) == task[c][t].pc \in {"store", "header", "reduce"}

\* no call that has been made has a callback that panics on an element of the input
AllTotal == \A c \in Calls : kind[c] # "none" => Total(fn[c], list)

\* C1: a CMap call on N >= 1 elements with a callback that panics on none of them
\* returns N results, the one at position i being f(list[i]), whatever the interleaving.
C1_CMapPositional ==
    \A c \in Calls :
        (kind[c] = "CMap" /\ Returned(c) /\ N >= 1 /\ Total(fn[c], list)) =>
            /\ Len(ret[c].elems) = N
            /\ \A k \in 1..N : ret[c].elems[k] = ApplyF(fn[c], list[k])

C1_Witness ==
    \E c \in Calls :
        /\ kind[c] = "CMap" /\ Returned(c) /\ N >= 2 /\ fn[c] = "square"
        /\ \E j, k \in 1..N : list[j] # list[k]

\* C2: what CMap returns and what Map returns for the same input and function have the
\* same length and the same value at every position, for every N, 0 and 1 included.
C2_CMapEqualsMap ==
    \A c \in Calls :
        (kind[c] = "CMap" /\ Returned(c) /\ Total(fn[c], list)) =>
            LET m == Map(list, fn[c])
            IN  /\ Len(ret[c].elems) = Len(m.elems)
                /\ \A k \in 1..Len(m.elems) : ret[c].elems[k] = m.elems[k]

C2_Witness ==
    \E c \in Calls :
        /\ kind[c] = "CMap" /\ Returned(c) /\ N = 0
        /\ Len(ret[c].elems) = 0 /\ Len(Map(list, fn[c]).elems) = 0

\* C3: the elements CFilter returns are, as a multiset, the input elements that satisfy
\* the predicate (what Filter returns): none dropped, none duplicated.
C3_CFilterMultiset ==
    \A c \in Calls :
        (kind[c] = "CFilter" /\ Returned(c) /\ Total(fn[c], list)) =>
            \A e \in Values : Count(ret[c].elems, e) = Count(Filter(list, fn[c]).elems, e)

\* C4: with the integer sum as reducer CReduce returns what Reduce returns, every
\* element folded in exactly once.
C4_CReduceEqualsReduce ==
    \A c \in Calls :
        (kind[c] = "CReduce" /\ Returned(c) /\ fn[c] = "sum") =>
            ret[c] = Reduce(list, fn[c], initial[c])

\* C5: no two tasks of a call are at the same time between their read of the shared
\* slice header (CFilter) or accumulator (CReduce) and their write-back of it.
C5_MutualExclusion ==
    \A c \in Calls : \A t, u \in Tasks :
        t # u => ~(InCritical(c, t) /\ InCritical(c, u))

\* C6: a call that has returned a result of N >= 1 tasks has all N tasks out of their
\* function with their completion signalled, and the result container still holds
\* exactly what was returned (nothing was written to it after the return).
C6_FanInBarrier ==
    \A c \in Calls :
        (Returned(c) /\ N >= 1) =>
            /\ \A t \in Tasks : Exited(c, t) /\ task[c][t].sig = 1
            /\ ret[c] = Result(kind[c], c)

C6_Witness ==
    \E c \in Calls :
        /\ kind[c] = "CReduce" /\ Returned(c) /\ N >= 2
        /\ \A t \in Tasks : task[c][t].pc = "done"

\* C7: under fair scheduling, if no callback ever panics, every call that has been made
\* eventually returns with every task it spawned run to completion.
C7_EventuallyReturns ==
    \A c \in Calls :
        []AllTotal =>
            ((pc[c] \in {"spawn", "wait"}) ~>
                (Returned(c) /\ \A t \in Tasks : task[c][t].pc = "done"))

C7_Witness ==
    \E c \in Calls :
        /\ kind[c] = "CFilter" /\ Returned(c) /\ N >= 2 /\ AllTotal
        /\ \A t \in Tasks : task[c][t].pc = "done"

\* C8: a call on the empty input has returned the identity result (the nil slice for
\* CMap and CFilter, the initial value for CReduce) with no task spawned, no WaitGroup
\* declared and no step between the call and the return.
C8_EmptyShortCircuit ==
    \A c \in Calls :
        (kind[c] # "none" /\ N = 0) =>
            /\ Returned(c)
            /\ ret[c] = IF kind[c] = "CReduce" THEN [val |-> initial[c]] ELSE NilSlice
            /\ c \notin barrier
            /\ wg[c] = 0

C8_Witness ==
    \E c \in Calls :
        /\ kind[c] = "CReduce" /\ N = 0 /\ Returned(c)
        /\ initial[c] # Zero /\ ret[c] = [val |-> initial[c]]

\* C9: a task whose callback panicked has signalled the barrier by the time it has left
\* its function, so once every task of a call has left its function, by return or by
\* panic, the barrier counter is zero and the waiting caller is released.
C9_SignalOnFault ==
    \A c \in Calls :
        /\ \A t \in Tasks : task[c][t].pc = "unwound" => task[c][t].sig = 1
        /\ (pc[c] = "wait" /\ \A t \in Tasks : Exited(c, t)) => wg[c] = 0

C9_Witness ==
    \E c \in Calls :
        /\ pc[c] = "wait" /\ N >= 2
        /\ \A t \in Tasks : task[c][t].pc = "unwound"
        /\ wg[c] = 0

\* the part of the state that belongs to call d is the same before and after the step
Untouched(d) ==
    /\ pc'[d] = pc[d]
    /\ task'[d] = task[d]
    /\ wg'[d] = wg[d]
    /\ result'[d] = result[d]
    /\ rlen'[d] = rlen[d]
    /\ acc'[d] = acc[d]
    /\ ret'[d] = ret[d]
    /\ (d \in barrier') = (d \in barrier)

\* C10: a step of one call (of its caller or of one of its tasks) changes nothing that
\* belongs to another call, and the step in which a CMap call returns hands back what
\* Map gives for the same input, however many other calls are in flight.
C10_CallsIsolated ==
    [][\A c \in Calls :
          (pc'[c] # pc[c] \/ task'[c] # task[c]) =>
              /\ \A d \in Calls \ {c} : Untouched(d)
              /\ (kind[c] = "CMap" /\ pc[c] = "wait" /\ Returned(c)' /\ Total(fn[c], list)) =>
                     ret'[c] = Map(list, fn[c])]_vars

C10_Witness ==
    \E c, d \in Calls :
        /\ c # d
        /\ kind[c] = "CMap" /\ kind[d] = "CMap" /\ fn[c] # fn[d] /\ AllTotal
        /\ pc[c] = "wait" /\ pc[d] = "wait"
        /\ \E t, u \in Tasks : task[c][t].pc = "done" /\ task[c][u].pc = "ready"
        /\ \E t, u \in Tasks : task[d][t].pc = "done" /\ task[d][u].pc = "ready"

\* the task has been spawned
Spawned(c, t) == task[c][t].pc # "none"

\* the CMap task has stored its result
Stored(c, t) == task[c][t].pc \in {"returning", "done"}

\* C11: in a CMap call the tasks hold pairwise different indices, and every slot of the
\* output holds the value of its own task once that task has stored and the zero value
\* make() left there before: no task writes another task's slot, none writes twice.
C11_CMapRaceFree ==
    \A c \in Calls :
        (kind[c] = "CMap" /\ N >= 1) =>
            /\ \A t, u \in Tasks :
                   (t # u /\ Spawned(c, t) /\ Spawned(c, u)) => task[c][t].i # task[c][u].i
            /\ \A k \in Tasks :
                   result[c][k] = IF \E t \in Tasks : Stored(c, t) /\ task[c][t].i = k
                                  THEN ApplyF(fn[c], list[k])
                                  ELSE Zero

C11_Witness ==
    \E c \in Calls :
        /\ kind[c] = "CMap" /\ N >= 2 /\ pc[c] = "wait"
        /\ Stored(c, 2) /\ task[c][1].pc = "ready"
        /\ result[c][2] # Zero /\ result[c][1] = Zero

\* C12: no step of any variant, sequential or concurrent, changes the input sequence:
\* after every step it holds the same elements in the same order as before.
C12_InputUnchanged == [][list' = list]_vars

\* a CFilter call has appended an element that is not the input's first, to an array
\* of its own
C12_Witness ==
    \E c \in Calls :
        /\ kind[c] = "CFilter" /\ pc[c] = "wait" /\ N >= 2
        /\ rlen[c] >= 1 /\ result[c][1] # list[1]

\* C13: CFilter returns the satisfying elements in input order: the very sequence
\* sequential Filter returns for the same input.
C13_CFilterOrdered ==
    \A c \in Calls :
        (kind[c] = "CFilter" /\ Returned(c) /\ Total(fn[c], list)) =>
            ret[c].elems = Filter(list, fn[c]).elems

\* the positions of the input that hold the target
Hits(target) == {k \in 1..N : list[k] = target}

Smallest(S) == CHOOSE k \in S : \A j \in S : k <= j

\* C14: IndexOf returns the smallest index (counted from 0) that holds the target and no
\* error, or -1 and the error 'element not found' when no position holds it; Contains
\* returns true exactly when IndexOf returns no error.
C14_IndexOfFirst ==
    /\ seq.op = "IndexOf" =>
           seq.out = IF Hits(seq.arg) # {}
                     THEN [index |-> Smallest(Hits(seq.arg)) - 1, err |-> NoError]
                     ELSE [index |-> -1, err |-> NotFound]
    /\ seq.op = "Contains" =>
           /\ seq.out.found <=> (IndexOf(list, seq.arg).err = NoError)
           /\ seq.out.found <=> (Hits(seq.arg) # {})

\* IndexOf found a target that the input holds twice, behind another element
C14_Witness ==
    /\ seq.op = "IndexOf" /\ Cardinality(Hits(seq.arg)) >= 2
    /\ seq.out.index = 1 /\ seq.out.err = NoError

\* C15: sequential Filter returns exactly the elements that satisfy the predicate, each
\* as often as the input holds it, in input order.
C15_FilterSelects ==
    (seq.op = "Filter" /\ Total(seq.f, list)) =>
        LET Keep(x) == ApplyPred(seq.f, x)
        IN  /\ seq.out.elems = SelectSeq(list, Keep)
            /\ \A e \in Values :
                   Count(seq.out.elems, e) = IF Keep(e) THEN Count(list, e) ELSE 0

\* Filter kept two different elements of three
C15_Witness ==
    /\ seq.op = "Filter" /\ Total(seq.f, list) /\ N = 3
    /\ Len(seq.out.elems) = 2 /\ seq.out.elems[1] # seq.out.elems[2]

\* the left fold of s from a: reducer(... reducer(reducer(a, s[1]), s[2]) ..., s[n])
RECURSIVE LeftFold(_, _, _)
LeftFold(f, a, s) ==
    IF Len(s) = 0 THEN a
    ELSE ApplyReducer(f, LeftFold(f, a, SubSeq(s, 1, Len(s) - 1)), s[Len(s)])

\* C16: sequential Reduce is the left fold of the input from the initial value, and
\* returns the initial value for an empty input.
C16_ReduceLeftFold ==
    seq.op = "Reduce" =>
        /\ N = 0 => seq.out = [val |-> seq.arg]
        /\ Total(seq.f, list) => seq.out = [val |-> LeftFold(seq.f, seq.arg, list)]

\* Reduce folded two different elements with a reducer that tells their order
C16_Witness ==
    /\ seq.op = "Reduce" /\ seq.f = "horner" /\ N = 2 /\ list[1] # list[2]
    /\ seq.out = [val |-> horner(horner(seq.arg, list[1]), list[2])]

\* C17: a call on N >= 1 elements spawns one task per position, in order, N in all,
\* and the task of position t holds the index t and the element list[t] it was handed
\* when spawned.
C17_TaskPerPosition ==
    \A c \in Calls :
        (kind[c] # "none" /\ N >= 1) =>
            /\ \A t \in Tasks : Spawned(c, t) <=> t < next[c]
            /\ pc[c] \in {"wait", "returned"} => next[c] = N + 1
            /\ \A t \in Tasks : Spawned(c, t) => task[c][t].i = t /\ task[c][t].v = list[t]

C17_Witness ==
    \E c \in Calls :
        /\ kind[c] = "CReduce" /\ N >= 2 /\ pc[c] = "wait"
        /\ list[1] # list[N]
        /\ \A t \in Tasks : Spawned(c, t)
        /\ task[c][1].pc = "done"

\* C18: the barrier counter of a call is N minus the number of tasks that have
\* signalled; a task signals once at most and only when it has left its function;
\* the counter is never negative and is zero only when all N tasks have left.
C18_BarrierCounter ==
    \A c \in Calls :
        /\ (\E t \in Tasks : Spawned(c, t)) => c \in barrier
        /\ (c \in barrier) =>
               /\ wg[c] = N - Cardinality({t \in Tasks : task[c][t].sig = 1})
               /\ wg[c] >= 0
               /\ \A t \in Tasks : task[c][t].sig \in {0, 1}
               /\ \A t \in Tasks : task[c][t].sig = 1 <=> Exited(c, t)
               /\ wg[c] = 0 => \A t \in Tasks : Exited(c, t)

C18_Witness ==
    \E c \in Calls :
        /\ c \in barrier /\ N >= 3 /\ wg[c] = 1
        /\ Cardinality({t \in Tasks : Exited(c, t)}) = N - 1

\* how many elements of the sequence s satisfy the predicate f
Satisfying(s, f) == Cardinality({k \in DOMAIN s : ApplyPred(f, s[k])})

\* C19: what CFilter returns is a sub-multiset of the satisfying input elements: every
\* returned element satisfies the predicate, no value is returned more often than it
\* occurs in the input, and the returned length exceeds neither the number of
\* satisfying elements nor N.
C19_CFilterSubMultiset ==
    \A c \in Calls :
        (kind[c] = "CFilter" /\ Returned(c) /\ Total(fn[c], list)) =>
            /\ \A k \in DOMAIN ret[c].elems : ApplyPred(fn[c], ret[c].elems[k])
            /\ \A e \in Values : Count(ret[c].elems, e) <= Count(list, e)
            /\ Len(ret[c].elems) <= Satisfying(list, fn[c])
            /\ Len(ret[c].elems) <= N

C19_Witness ==
    \E c \in Calls :
        /\ kind[c] = "CFilter" /\ Returned(c) /\ Total(fn[c], list)
        /\ Satisfying(list, fn[c]) >= 2
        /\ Len(ret[c].elems) < Satisfying(list, fn[c])

RECURSIVE FoldsFrom(_, _, _)
\* the values f gives when folded on from a over the elements at distinct positions
\* outside used, taken in any order; a itself is one once a position is used
FoldsFrom(f, a, used) ==
    (IF used = {} THEN {} ELSE {a})
        \cup UNION {FoldsFrom(f, ApplyReducer(f, a, list[k]), used \cup {k}) : k \in Tasks \ used}

\* C20: what CReduce returns on N >= 1 elements is the reducer folded from the initial
\* value over some ordering of a non-empty set of distinct positions; for N = 1 it is
\* what Reduce returns.
C20_CReduceFoldsSome ==
    \A c \in Calls :
        (kind[c] = "CReduce" /\ Returned(c) /\ N >= 1 /\ Total(fn[c], list)) =>
            /\ ret[c].val \in FoldsFrom(fn[c], initial[c], {})
            /\ N = 1 => ret[c] = Reduce(list, fn[c], initial[c])

\* CReduce returned the fold over the second and then the first of three elements
C20_Witness ==
    \E c \in Calls :
        /\ kind[c] = "CReduce" /\ Returned(c) /\ N >= 3 /\ fn[c] = "horner"
        /\ ret[c].val = horner(horner(initial[c], list[2]), list[1])

====
